---- MODULE Spec2Model ----
(***************************************************************************)
(* Model of the single-tape Turing machine of src/main.rs that adds two   *)
(* binary numbers: the TuringMachine struct (tape, head, state, rules),   *)
(* TuringMachine::new, TuringMachine::step, TuringMachine::run and the     *)
(* rule table and example tape built by main.                              *)
(*                                                                         *)
(* The tape is a sequence of one-character strings.  head is the code's    *)
(* zero-based usize index, so the cell under the head is tape[head + 1].   *)
(***************************************************************************)
EXTENDS Integers, Sequences, FiniteSets, TLC

VARIABLES tape, head, state, pc, input, prev, consumed

vars == <<tape, head, state, pc, input, prev, consumed>>

(***************************************************************************)
(* Bounds of the exploration.                                              *)
(***************************************************************************)
\* longest operand of the well-formed initial tapes
MaxDigits == 3
\* most leading (and most trailing) blanks of the well-formed initial tapes
MaxBlank == 1
\* longest initial tape drawn from the whole alphabet
MaxAnyLen == 3
\* cap on the tape length: a step that would grow the tape past it is not taken
MaxTape == 18

(***************************************************************************)
(* Data model.                                                             *)
(***************************************************************************)
State == {"FindPlus", "GetLast", "AddOne", "AddZero", "AddDigitZero",
          "AddDigitOne", "Carry", "BackToStart", "Halt"}

Direction == {"Left", "Right"}

\* the characters the rule table knows, and one it does not ("x")
Symbols == {"_", "0", "1", "+", "I", "O", "x"}

\* FindPlusRules that turn the wrong way at the separator
FindPlusRules_TurnsRight ==
     (<<"FindPlus", "_">>     :> <<"_", "Right", "FindPlus">>)
  @@ (<<"FindPlus", "1">>     :> <<"1", "Right", "FindPlus">>)
  @@ (<<"FindPlus", "0">>     :> <<"0", "Right", "FindPlus">>)
  @@ (<<"FindPlus", "+">>     :> <<"+", "Right", "GetLast">>)

\* FindPlusRules without the rule that skips a '0'
FindPlusRules_NoZero ==
     (<<"FindPlus", "_">>     :> <<"_", "Right", "FindPlus">>)
  @@ (<<"FindPlus", "1">>     :> <<"1", "Right", "FindPlus">>)
  @@ (<<"FindPlus", "+">>     :> <<"+", "Left", "GetLast">>)

\* FindPlusRules with one more rule, keyed on Halt, that starts the scan again
FindPlusRules_HaltKey ==
     (<<"FindPlus", "_">>     :> <<"_", "Right", "FindPlus">>)
  @@ (<<"FindPlus", "1">>     :> <<"1", "Right", "FindPlus">>)
  @@ (<<"FindPlus", "0">>     :> <<"0", "Right", "FindPlus">>)
  @@ (<<"FindPlus", "+">>     :> <<"+", "Left", "GetLast">>)
  @@ (<<"Halt", "_">>         :> <<"_", "Right", "FindPlus">>)

\* skips over the first empty cell, keeps moving until a plus, then turns back
FindPlusRules ==
     (<<"FindPlus", "_">>     :> <<"_", "Right", "FindPlus">>)
  @@ (<<"FindPlus", "1">>     :> <<"1", "Right", "FindPlus">>)
  @@ (<<"FindPlus", "0">>     :> <<"0", "Right", "FindPlus">>)
  @@ (<<"FindPlus", "+">>     :> <<"+", "Left", "GetLast">>)

\* AddZeroRules that step past the blank that ends the second operand
AddZeroRules_OvershootsBlank ==
     (<<"GetLast", "0">>      :> <<"+", "Right", "AddZero">>)
  @@ (<<"AddZero", "1">>      :> <<"1", "Right", "AddZero">>)
  @@ (<<"AddZero", "0">>      :> <<"0", "Right", "AddZero">>)
  @@ (<<"AddZero", "+">>      :> <<"+", "Right", "AddZero">>)
  @@ (<<"AddZero", "I">>      :> <<"I", "Left", "AddDigitZero">>)
  @@ (<<"AddZero", "O">>      :> <<"O", "Left", "AddDigitZero">>)
  @@ (<<"AddZero", "_">>      :> <<"_", "Right", "AddDigitZero">>)
  @@ (<<"AddDigitZero", "1">> :> <<"I", "Left", "BackToStart">>)
  @@ (<<"AddDigitZero", "0">> :> <<"O", "Left", "BackToStart">>)
  @@ (<<"AddDigitZero", "+">> :> <<"O", "Left", "BackToStart">>)

\* AddZeroRules that leave a '0' of the second operand unmarked
AddZeroRules_ForgetsMark ==
     (<<"GetLast", "0">>      :> <<"+", "Right", "AddZero">>)
  @@ (<<"AddZero", "1">>      :> <<"1", "Right", "AddZero">>)
  @@ (<<"AddZero", "0">>      :> <<"0", "Right", "AddZero">>)
  @@ (<<"AddZero", "+">>      :> <<"+", "Right", "AddZero">>)
  @@ (<<"AddZero", "I">>      :> <<"I", "Left", "AddDigitZero">>)
  @@ (<<"AddZero", "O">>      :> <<"O", "Left", "AddDigitZero">>)
  @@ (<<"AddZero", "_">>      :> <<"_", "Left", "AddDigitZero">>)
  @@ (<<"AddDigitZero", "1">> :> <<"I", "Left", "BackToStart">>)
  @@ (<<"AddDigitZero", "0">> :> <<"0", "Left", "BackToStart">>)
  @@ (<<"AddDigitZero", "+">> :> <<"O", "Left", "BackToStart">>)

\* AddZeroRules that copy the consumed 0 as the mark whatever digit the cell holds
AddZeroRules_MarksConsumed ==
     (<<"GetLast", "0">>      :> <<"+", "Right", "AddZero">>)
  @@ (<<"AddZero", "1">>      :> <<"1", "Right", "AddZero">>)
  @@ (<<"AddZero", "0">>      :> <<"0", "Right", "AddZero">>)
  @@ (<<"AddZero", "+">>      :> <<"+", "Right", "AddZero">>)
  @@ (<<"AddZero", "I">>      :> <<"I", "Left", "AddDigitZero">>)
  @@ (<<"AddZero", "O">>      :> <<"O", "Left", "AddDigitZero">>)
  @@ (<<"AddZero", "_">>      :> <<"_", "Left", "AddDigitZero">>)
  @@ (<<"AddDigitZero", "1">> :> <<"O", "Left", "BackToStart">>)
  @@ (<<"AddDigitZero", "0">> :> <<"O", "Left", "BackToStart">>)
  @@ (<<"AddDigitZero", "+">> :> <<"O", "Left", "BackToStart">>)

\* previous digit is 0: delete it, move right to a _, I or O, mark the digit on its left
AddZeroRules ==
     (<<"GetLast", "0">>      :> <<"+", "Right", "AddZero">>)
  @@ (<<"AddZero", "1">>      :> <<"1", "Right", "AddZero">>)
  @@ (<<"AddZero", "0">>      :> <<"0", "Right", "AddZero">>)
  @@ (<<"AddZero", "+">>      :> <<"+", "Right", "AddZero">>)
  @@ (<<"AddZero", "I">>      :> <<"I", "Left", "AddDigitZero">>)
  @@ (<<"AddZero", "O">>      :> <<"O", "Left", "AddDigitZero">>)
  @@ (<<"AddZero", "_">>      :> <<"_", "Left", "AddDigitZero">>)
  @@ (<<"AddDigitZero", "1">> :> <<"I", "Left", "BackToStart">>)
  @@ (<<"AddDigitZero", "0">> :> <<"O", "Left", "BackToStart">>)
  @@ (<<"AddDigitZero", "+">> :> <<"O", "Left", "BackToStart">>)

\* AddOneRules that delete the consumed digit with a blank instead of a '+'
AddOneRules_DeletesWithBlank ==
     (<<"GetLast", "1">>      :> <<"_", "Right", "AddOne">>)
  @@ (<<"AddOne", "1">>       :> <<"1", "Right", "AddOne">>)
  @@ (<<"AddOne", "0">>       :> <<"0", "Right", "AddOne">>)
  @@ (<<"AddOne", "+">>       :> <<"+", "Right", "AddOne">>)
  @@ (<<"AddOne", "_">>       :> <<"_", "Left", "AddDigitOne">>)
  @@ (<<"AddOne", "I">>       :> <<"I", "Left", "AddDigitOne">>)
  @@ (<<"AddOne", "O">>       :> <<"O", "Left", "AddDigitOne">>)

\* previous digit is 1: delete it, move right to a _, I or O
AddOneRules ==
     (<<"GetLast", "1">>      :> <<"+", "Right", "AddOne">>)
  @@ (<<"AddOne", "1">>       :> <<"1", "Right", "AddOne">>)
  @@ (<<"AddOne", "0">>       :> <<"0", "Right", "AddOne">>)
  @@ (<<"AddOne", "+">>       :> <<"+", "Right", "AddOne">>)
  @@ (<<"AddOne", "_">>       :> <<"_", "Left", "AddDigitOne">>)
  @@ (<<"AddOne", "I">>       :> <<"I", "Left", "AddDigitOne">>)
  @@ (<<"AddOne", "O">>       :> <<"O", "Left", "AddDigitOne">>)

\* AddDigitOneRules with the two marks swapped
AddDigitOneRules_SwappedMarks ==
     (<<"AddDigitOne", "1">>  :> <<"I", "Left", "Carry">>)
  @@ (<<"AddDigitOne", "0">>  :> <<"O", "Left", "BackToStart">>)
  @@ (<<"AddDigitOne", "+">>  :> <<"I", "Left", "BackToStart">>)

\* AddDigitOneRules that forget the carry: 1 plus 1 goes straight to BackToStart
AddDigitOneRules_NoCarry ==
     (<<"AddDigitOne", "1">>  :> <<"O", "Left", "BackToStart">>)
  @@ (<<"AddDigitOne", "0">>  :> <<"I", "Left", "BackToStart">>)
  @@ (<<"AddDigitOne", "+">>  :> <<"I", "Left", "BackToStart">>)

\* adds one to the last unmarked digit of the second number
AddDigitOneRules ==
     (<<"AddDigitOne", "1">>  :> <<"O", "Left", "Carry">>)
  @@ (<<"AddDigitOne", "0">>  :> <<"I", "Left", "BackToStart">>)
  @@ (<<"AddDigitOne", "+">>  :> <<"I", "Left", "BackToStart">>)

\* CarryRules whose carry stops at the first 1 it meets
CarryRules_StopsOnOne ==
     (<<"Carry", "0">>        :> <<"1", "Left", "BackToStart">>)
  @@ (<<"Carry", "1">>        :> <<"0", "Left", "BackToStart">>)
  @@ (<<"Carry", "+">>        :> <<"1", "Left", "BackToStart">>)

\* CarryRules without the rule for the separator
CarryRules_NoPlus ==
     (<<"Carry", "0">>        :> <<"1", "Left", "BackToStart">>)
  @@ (<<"Carry", "1">>        :> <<"0", "Left", "Carry">>)

\* carries a one into the digits further left
CarryRules ==
     (<<"Carry", "0">>        :> <<"1", "Left", "BackToStart">>)
  @@ (<<"Carry", "1">>        :> <<"0", "Left", "Carry">>)
  @@ (<<"Carry", "+">>        :> <<"1", "Left", "BackToStart">>)

\* BackToStartRules whose rule for the blank stays in BackToStart
BackToStartRules_NoRestart ==
     (<<"BackToStart", "0">>  :> <<"0", "Left", "BackToStart">>)
  @@ (<<"BackToStart", "1">>  :> <<"1", "Left", "BackToStart">>)
  @@ (<<"BackToStart", "+">>  :> <<"+", "Left", "BackToStart">>)
  @@ (<<"BackToStart", "_">>  :> <<"_", "Right", "BackToStart">>)

\* moves all the way back to the start of the tape, then starts again
BackToStartRules ==
     (<<"BackToStart", "0">>  :> <<"0", "Left", "BackToStart">>)
  @@ (<<"BackToStart", "1">>  :> <<"1", "Left", "BackToStart">>)
  @@ (<<"BackToStart", "+">>  :> <<"+", "Left", "BackToStart">>)
  @@ (<<"BackToStart", "_">>  :> <<"_", "Right", "FindPlus">>)

\* let mut rules = HashMap::new(), after all the insertions
rules ==
  FindPlusRules @@ AddZeroRules @@ AddOneRules @@ AddDigitOneRules
    @@ CarryRules @@ BackToStartRules

\* let tape = vec!['_','1','0','1','0','0','1','1','0','1','1','+','1','0','1','1','_']
ExampleTape ==
  <<"_", "1", "0", "1", "0", "0", "1", "1", "0", "1", "1", "+", "1", "0", "1", "1", "_">>

(***************************************************************************)
(* TuringMachine::step, in its parts.                                      *)
(***************************************************************************)
\* MoveLeft that grows the tape at the wrong end
MoveLeft_PushRight(t, h) ==
  IF h > 0 THEN [tape |-> t, head |-> h - 1]
           ELSE [tape |-> Append(t, "_"), head |-> h]

\* Direction::Left => if self.head > 0 { self.head -= 1 } else { self.tape.insert(0, '_') }
MoveLeft(t, h) ==
  IF h > 0 THEN [tape |-> t, head |-> h - 1]
           ELSE [tape |-> <<"_">> \o t, head |-> h]

\* MoveRight that never pushes a blank
MoveRight_NoGrow(t, h) ==
  [tape |-> t, head |-> h + 1]

\* MoveRight that pushes a blank one cell before the head reaches the end
MoveRight_Eager(t, h) ==
  LET nh == h + 1
  IN  IF nh + 1 >= Len(t) THEN [tape |-> Append(t, "_"), head |-> nh]
                          ELSE [tape |-> t, head |-> nh]

\* MoveRight that grows only once the head is already past the end
MoveRight_GrowLate(t, h) ==
  LET nh == h + 1
  IN  IF nh > Len(t) THEN [tape |-> Append(t, "_"), head |-> nh]
                     ELSE [tape |-> t, head |-> nh]

\* Direction::Right => self.head += 1; if self.head >= self.tape.len() { self.tape.push('_') }
MoveRight(t, h) ==
  LET nh == h + 1
  IN  IF nh >= Len(t) THEN [tape |-> Append(t, "_"), head |-> nh]
                      ELSE [tape |-> t, head |-> nh]

\* step whose no-rule branch still moves the head to the right
step_NoRuleMoves(t, h, s) ==
  LET current_symbol == t[h + 1]
      key == <<s, current_symbol>>
  IN  IF key \in DOMAIN rules
      THEN LET write     == rules[key][1]
               direction == rules[key][2]
               next      == rules[key][3]
               written   == [t EXCEPT ![h + 1] = write]
               moved     == IF direction = "Left" THEN MoveLeft(written, h)
                                                  ELSE MoveRight(written, h)
           IN  [tape |-> moved.tape, head |-> moved.head, state |-> next]
      ELSE LET moved == MoveRight(t, h)
           IN  [tape |-> moved.tape, head |-> moved.head, state |-> "Halt"]

\* the body of step once tape[head] has been read: rule lookup, write, move, next state
step(t, h, s) ==
  LET current_symbol == t[h + 1]
      key == <<s, current_symbol>>
  IN  IF key \in DOMAIN rules
      THEN LET write     == rules[key][1]
               direction == rules[key][2]
               next      == rules[key][3]
               written   == [t EXCEPT ![h + 1] = write]
               moved     == IF direction = "Left" THEN MoveLeft(written, h)
                                                  ELSE MoveRight(written, h)
           IN  [tape |-> moved.tape, head |-> moved.head, state |-> next]
      ELSE [tape |-> t, head |-> h, state |-> "Halt"]

(***************************************************************************)
(* Initial tapes.                                                          *)
(***************************************************************************)
\* sequences over S of length lo..hi
SeqsOf(S, lo, hi) == UNION {[1..n -> S] : n \in lo..hi}

Blanks(n) == [i \in 1..n |-> "_"]

\* blank*, digits, '+', digits, blank* with both operands non-empty
ValidTapes ==
  {Blanks(l) \o a \o <<"+">> \o b \o Blanks(r) :
     l \in 0..MaxBlank, r \in 0..MaxBlank,
     a \in SeqsOf({"0", "1"}, 1, MaxDigits),
     b \in SeqsOf({"0", "1"}, 1, MaxDigits)}

\* every tape the caller of new can pass, up to MaxAnyLen cells (the empty one included)
AnyTapes == SeqsOf(Symbols, 0, MaxAnyLen)

InitialTapes == ValidTapes \cup AnyTapes \cup {ExampleTape}

\* t has the shape blank*, digits, '+', digits, blank*
IsValid(t) ==
  \E p \in 1..Len(t) :
    /\ t[p] = "+"
    /\ \E a \in 1..(p - 1) : \E b \in (p + 1)..Len(t) :
         /\ \A i \in 1..(a - 1) : t[i] = "_"
         /\ \A i \in a..(p - 1) : t[i] \in {"0", "1"}
         /\ \A i \in (p + 1)..b : t[i] \in {"0", "1"}
         /\ \A i \in (b + 1)..Len(t) : t[i] = "_"

(***************************************************************************)
(* The machine.                                                            *)
(***************************************************************************)
\* the step about to run is a GetLast rule firing: it deletes the digit under the head
Consumes(t, h, s) == s = "GetLast" /\ <<s, t[h + 1]>> \in DOMAIN rules

NoPrev == [valid |-> FALSE, tape |-> <<>>, head |-> 0, state |-> "FindPlus"]

\* TuringMachine::new(tape, rules): head 0, state FindPlus
Init ==
  /\ input \in InitialTapes
  /\ tape = input
  /\ head = 0
  /\ state = "FindPlus"
  /\ pc = "new"
  /\ prev = NoPrev
  /\ consumed = <<>>

\* one execution of step(): self.tape[self.head] panics when head is out of bounds
StepBody(pcAfter) ==
  IF head >= Len(tape)
  THEN /\ pc' = "panic"
       /\ UNCHANGED <<tape, head, state, input, prev, consumed>>
  ELSE LET m == step(tape, head, state)
       IN  /\ Len(m.tape) <= MaxTape
           /\ tape' = m.tape
           /\ head' = m.head
           /\ state' = m.state
           /\ pc' = pcAfter
           /\ prev' = [valid |-> TRUE, tape |-> tape, head |-> head, state |-> state]
           /\ consumed' = IF Consumes(tape, head, state)
                           THEN Append(consumed, tape[head + 1])
                           ELSE consumed
           /\ UNCHANGED input

\* a caller invokes step() directly, before run or after run has returned
Step ==
  /\ pc \in {"new", "done"}
  /\ StepBody(pc)

\* run(): while self.state != State::Halt { println!(...); self.step(); }
RunLoop ==
  /\ pc \in {"new", "run"}
  /\ state # "Halt"
  /\ StepBody("run")

\* run(): the loop condition fails, the final line is printed and run returns
RunExit ==
  /\ pc \in {"new", "run"}
  /\ state = "Halt"
  /\ pc' = "done"
  /\ UNCHANGED <<tape, head, state, input, prev, consumed>>

Next == Step \/ RunLoop \/ RunExit

Spec == Init /\ [][Next]_vars

\* run is a synchronous loop: it keeps iterating until its condition fails
FairSpec == Init /\ [][Next]_vars /\ WF_vars(RunLoop) /\ WF_vars(RunExit)

TypeOK ==
  /\ tape \in Seq(Symbols)
  /\ head \in Nat
  /\ state \in State
  /\ pc \in {"new", "run", "done", "panic"}


(***************************************************************************)
(* Reading a tape as a number.                                             *)
(***************************************************************************)
IsDigitCell(c) == c \in {"0", "1", "I", "O"}

\* the digit cells of t, in order, 'I' read as 1 and 'O' as 0; '+', '_' and others dropped
Bits(t) ==
  LET d == SelectSeq(t, IsDigitCell)
  IN  [i \in 1..Len(d) |-> IF d[i] \in {"1", "I"} THEN 1 ELSE 0]

RECURSIVE BinValue(_)
\* the number a sequence of bits denotes, most significant bit first
BinValue(b) ==
  IF Len(b) = 0 THEN 0
  ELSE 2 * BinValue(SubSeq(b, 1, Len(b) - 1)) + b[Len(b)]

TapeValue(t) == BinValue(Bits(t))

\* position of the first separator of t
PlusPos(t) == CHOOSE p \in 1..Len(t) : t[p] = "+" /\ \A q \in 1..(p - 1) : t[q] # "+"

Operand1(t) == TapeValue(SubSeq(t, 1, PlusPos(t) - 1))
Operand2(t) == TapeValue(SubSeq(t, PlusPos(t) + 1, Len(t)))

(***************************************************************************)
(* Reading a transition.                                                   *)
(***************************************************************************)
\* the current (state, symbol under head) pair has a rule
Matched == head < Len(tape) /\ <<state, tape[head + 1]>> \in DOMAIN rules

Rule == rules[<<state, tape[head + 1]>>]

\* the tape once the matched rule's symbol is written under the head
Written == [tape EXCEPT ![head + 1] = Rule[1]]

\* the transition is run returning, which executes no step
RunReturns == pc # "done" /\ pc' = "done"

\* the transition is a step that ran to its end
StepDone == pc' # "panic" /\ ~RunReturns

(***************************************************************************)
(* Properties.                                                             *)
(***************************************************************************)
\* C1: for every well-formed initial tape (blank*, digits, '+', digits, blank*),
\* once the machine is in Halt the digit cells of the tape, 'I' read as 1 and 'O'
\* as 0, '+' and '_' ignored, denote operand1 + operand2.
C1_SumOnTape ==
  (state = "Halt" /\ IsValid(input)) =>
     TapeValue(tape) = Operand1(input) + Operand2(input)

\* 11 + 11 has been added with a carry out of the top digit, and run has returned
C1_Witness ==
  /\ pc = "done"
  /\ state = "Halt"
  /\ input = <<"_", "1", "1", "+", "1", "1", "_">>
  /\ Bits(tape) = <<1, 1, 0>>

\* C2: for every well-formed initial tape, with or without leading and trailing
\* blanks, run reaches Halt and returns.
C2_ValidTapeHalts ==
  IsValid(input) ~> (state = "Halt" /\ pc = "done")

\* run has returned on a well-formed tape that had no leading and no trailing blank
C2_Witness ==
  /\ pc = "done"
  /\ state = "Halt"
  /\ IsValid(input)
  /\ input[1] # "_"
  /\ input[Len(input)] # "_"
  /\ prev.valid
  /\ prev.state = "GetLast"

\* C3: after every step that runs to its end, matched or not, growing the tape
\* or not, 0 <= head < length of the tape.
C3_HeadInBounds ==
  [][StepDone => (0 <= head' /\ head' < Len(tape'))]_vars

\* a step has just grown the tape on the right and the head is on the last cell
C3_Witness ==
  /\ prev.valid
  /\ Len(tape) = Len(prev.tape) + 1
  /\ prev.head = Len(prev.tape) - 1
  /\ head = Len(tape) - 1

\* C4: a step with no rule for the current (state, symbol under head) pair puts
\* the machine in Halt and leaves the tape and the head as they were; it does
\* not fail.
C4_NoRuleHalts ==
  [][(head < Len(tape) /\ ~Matched /\ ~RunReturns) =>
        (state' = "Halt" /\ tape' = tape /\ head' = head /\ pc' # "panic")]_vars

\* AddOne has just met a symbol it has no rule for
C4_Witness ==
  /\ prev.valid
  /\ prev.state = "AddOne"
  /\ <<prev.state, prev.tape[prev.head + 1]>> \notin DOMAIN rules
  /\ state = "Halt"
  /\ tape = prev.tape
  /\ head = prev.head

\* C5: a step leaves the tape length as it is or adds exactly one cell, and it
\* adds one only when the matched rule moves Right from the last cell or Left
\* from cell 0.
C5_GrowthLazy ==
  [][\/ Len(tape') = Len(tape)
     \/ /\ Len(tape') = Len(tape) + 1
        /\ Matched
        /\ \/ Rule[2] = "Right" /\ head = Len(tape) - 1
           \/ Rule[2] = "Left" /\ head = 0]_vars

\* the tape has grown once on each side
C5_Witness ==
  /\ Len(tape) = Len(input) + 2
  /\ tape[1] = "_"
  /\ tape[Len(tape)] = "_"
  /\ SubSeq(tape, 2, Len(tape) - 1) # input
  /\ IsValid(input)

\* the last separator of t, 0 when there is none
LastPlusPos(t) ==
  IF \E p \in 1..Len(t) : t[p] = "+"
  THEN CHOOSE p \in 1..Len(t) : t[p] = "+" /\ \A q \in (p + 1)..Len(t) : t[q] # "+"
  ELSE 0

\* the digits right of the last separator, marks read back as 0/1
SecondOperand(t) == Bits(SubSeq(t, LastPlusPos(t) + 1, Len(t)))

\* C6 (as stated): on the example tape of main the machine halts with the second
\* operand, marks stripped, equal to binary 10101110110 = 1398 = 1387 + 11.
C6_ExampleIs1398 ==
  (state = "Halt" /\ input = ExampleTape) =>
     /\ SecondOperand(tape) = <<1, 0, 1, 0, 1, 1, 1, 0, 1, 1, 0>>
     /\ BinValue(SecondOperand(tape)) = 1398

\* C6 (amended): on the example tape of main, whose first operand 1010011011 is
\* 667, the machine halts with the second operand, marks stripped, equal to
\* binary 1010100110 = 678 = 667 + 11.
C6_ExampleIs678 ==
  (state = "Halt" /\ input = ExampleTape) =>
     /\ Operand1(input) = 667
     /\ Operand2(input) = 11
     /\ SecondOperand(tape) = <<1, 0, 1, 0, 1, 0, 0, 1, 1, 0>>
     /\ BinValue(SecondOperand(tape)) = 678

\* run has returned on the example tape
C6_Witness ==
  /\ input = ExampleTape
  /\ pc = "done"
  /\ state = "Halt"
  /\ Len(tape) = Len(ExampleTape)

\* C7: reading the symbol under the head never fails: for every initial tape
\* and in every reachable state, the initial one included, the head indexes an
\* existing cell (and so tape[head] never panics).
C7_ReadNeverFails ==
  /\ 0 <= head
  /\ head < Len(tape)
  /\ pc # "panic"

\* C8: Halt is terminal: no rule is keyed on Halt, run takes no step in Halt
\* (it only returns), and any step taken in Halt leaves state, tape and head
\* as they are.
C8_HaltTerminal ==
  /\ [](\A k \in DOMAIN rules : k[1] # "Halt")
  /\ [][state = "Halt" =>
          /\ state' = "Halt" /\ tape' = tape /\ head' = head
          /\ pc' \notin {"run", "panic"}
          /\ pc = "run" => (pc' = "done" /\ prev' = prev)]_vars

\* a step was taken in Halt after run returned, and nothing moved
C8_Witness ==
  /\ pc = "done"
  /\ state = "Halt"
  /\ prev.valid
  /\ prev.state = "Halt"
  /\ prev.tape = tape
  /\ prev.head = head

\* C9: a matched rule moving Left at head 0 inserts exactly one blank at the
\* left end: the head stays 0 and reads the new blank, every old cell (the one
\* just written included, now at index 1) is one place further right; at
\* head > 0 a Left move only decrements the head.
C9_LeftMove ==
  [][(Matched /\ Rule[2] = "Left" /\ ~RunReturns) =>
        IF head = 0
        THEN /\ tape' = <<"_">> \o Written
             /\ Len(tape') = Len(tape) + 1
             /\ head' = 0
             /\ tape'[head' + 1] = "_"
             /\ tape'[2] = Rule[1]
        ELSE /\ head' = head - 1
             /\ tape' = Written]_vars

\* a Left rule has just fired at head 0 on a cell that was not blank
C9_Witness ==
  /\ prev.valid
  /\ prev.head = 0
  /\ <<prev.state, prev.tape[1]>> \in DOMAIN rules
  /\ rules[<<prev.state, prev.tape[1]>>][2] = "Left"
  /\ prev.tape[1] # "_"
  /\ head = 0
  /\ tape[1] = "_"
  /\ Len(tape) = Len(prev.tape) + 1
  /\ SubSeq(tape, 3, Len(tape)) = SubSeq(prev.tape, 2, Len(prev.tape))

\* C10: a matched rule moving Right increases the head by exactly one; when the
\* new head equals the tape length exactly one blank is appended and the head
\* reads it, otherwise the length is unchanged; the other cells keep their
\* content.
C10_RightMove ==
  [][(Matched /\ Rule[2] = "Right" /\ ~RunReturns) =>
        /\ head' = head + 1
        /\ IF head + 1 = Len(tape)
           THEN /\ tape' = Append(Written, "_")
                /\ tape'[head' + 1] = "_"
           ELSE /\ tape' = Written]_vars

\* a Right rule has just fired on the last cell and a blank was appended
C10_Witness ==
  /\ prev.valid
  /\ <<prev.state, prev.tape[prev.head + 1]>> \in DOMAIN rules
  /\ rules[<<prev.state, prev.tape[prev.head + 1]>>][2] = "Right"
  /\ prev.head + 1 = Len(prev.tape)
  /\ head = Len(prev.tape)
  /\ tape[head + 1] = "_"
  /\ SubSeq(tape, 1, prev.head) = SubSeq(prev.tape, 1, prev.head)

(***************************************************************************)
(* Reading a step by what it reads and what it does.                       *)
(***************************************************************************)
\* a step is being taken in state s with symbol c under the head
Reads(s, c) ==
  /\ head < Len(tape)
  /\ state = s
  /\ tape[head + 1] = c
  /\ ~RunReturns

\* the step writes w under the head, moves Left and enters state n
DoesLeft(w, n) ==
  /\ state' = n
  /\ IF head = 0
     THEN tape' = <<"_">> \o [tape EXCEPT ![head + 1] = w] /\ head' = 0
     ELSE tape' = [tape EXCEPT ![head + 1] = w] /\ head' = head - 1

\* the cell the last step had under the head, as an index of the tape now
PrevCell == IF Len(tape) > Len(prev.tape) /\ prev.head = 0 THEN 2 ELSE prev.head + 1

\* the last step was taken in state s with symbol c under the head
PrevRead(s, c) ==
  /\ prev.valid
  /\ prev.state = s
  /\ prev.tape[prev.head + 1] = c

\* C11: in AddDigitOne, reading an unmarked '1' writes 'O', moves Left and
\* enters Carry; reading an unmarked '0' writes 'I', moves Left and enters
\* BackToStart, not Carry.
C11_AddDigitOne ==
  [][/\ Reads("AddDigitOne", "1") => DoesLeft("O", "Carry")
     /\ Reads("AddDigitOne", "0") => DoesLeft("I", "BackToStart")]_vars

\* AddDigitOne has just turned a '1' into 'O' and the machine is in Carry
C11_Witness ==
  /\ PrevRead("AddDigitOne", "1")
  /\ state = "Carry"
  /\ tape[PrevCell] = "O"
  /\ head = prev.head - 1

\* C12 (as stated): in Carry, reading a marked 1 writes a marked 0, moves Left
\* and stays in Carry; reading a marked 0 or the separator writes a marked 1,
\* moves Left and enters BackToStart.
C12_CarryOnMarked ==
  [][/\ Reads("Carry", "I") => DoesLeft("O", "Carry")
     /\ Reads("Carry", "O") => DoesLeft("I", "BackToStart")
     /\ Reads("Carry", "+") => DoesLeft("I", "BackToStart")]_vars

\* C12 (amended): in Carry, reading an unmarked '1' writes an unmarked '0',
\* moves Left and stays in Carry; reading an unmarked '0' or the separator
\* writes an unmarked '1', moves Left and enters BackToStart.
C12_CarryOnUnmarked ==
  [][/\ Reads("Carry", "1") => DoesLeft("0", "Carry")
     /\ Reads("Carry", "0") => DoesLeft("1", "BackToStart")
     /\ Reads("Carry", "+") => DoesLeft("1", "BackToStart")]_vars

\* the carry has just passed through a '1' and goes on
C12_Witness ==
  /\ PrevRead("Carry", "1")
  /\ state = "Carry"
  /\ tape[PrevCell] = "0"
  /\ tape[PrevCell + 1] = "O"

\* the digit GetLast consumed in the pass under way
LastConsumed == consumed[Len(consumed)]

\* the step is the one that marks a cell of the second operand
Marks ==
  /\ head < Len(tape)
  /\ state \in {"AddDigitZero", "AddDigitOne"}
  /\ <<state, tape[head + 1]>> \in DOMAIN rules
  /\ ~RunReturns

\* the cell that was under the head, read after the step
CellAfter == IF Len(tape') > Len(tape) /\ head = 0 THEN tape'[2] ELSE tape'[head + 1]

\* C13 (as stated): the cell marked in a pass shows the digit GetLast consumed
\* in that pass: 'O' after a consumed '0', 'I' after a consumed '1'.
C13_MarkIsConsumedDigit ==
  [][Marks => /\ Len(consumed) > 0
              /\ LastConsumed = "0" => CellAfter = "O"
              /\ LastConsumed = "1" => CellAfter = "I"]_vars

\* C13 (amended): the cell marked in a pass shows the sum bit of the digit
\* GetLast consumed in that pass and the digit the cell held ('+' counting as
\* 0): after a consumed '0' it is 'O' over '0' or '+' and 'I' over '1'; after a
\* consumed '1' it is 'I' over '0' or '+' and 'O' over '1'.
C13_MarkIsSumBit ==
  [][Marks => /\ Len(consumed) > 0
              /\ LastConsumed = "0" =>
                    CellAfter = (IF tape[head + 1] = "1" THEN "I" ELSE "O")
              /\ LastConsumed = "1" =>
                    CellAfter = (IF tape[head + 1] = "1" THEN "O" ELSE "I")]_vars

\* a pass that consumed a '0' has just marked a cell holding '1' as 'I'
C13_Witness ==
  /\ PrevRead("AddDigitZero", "1")
  /\ Len(consumed) > 0
  /\ LastConsumed = "0"
  /\ tape[PrevCell] = "I"
  /\ state = "BackToStart"

IsMark(c) == c \in {"I", "O"}

IsPlainDigit(c) == c \in {"0", "1"}

\* how many cells of t are marked
MarkCount(t) == Len(SelectSeq(t, IsMark))

\* how many digits the first operand of the initial tape t has
Operand1Digits(t) == Len(SelectSeq(SubSeq(t, 1, PlusPos(t) - 1), IsPlainDigit))

\* C14: on a well-formed initial tape the head is on a marked cell only in
\* AddZero or AddOne (never in FindPlus or GetLast), and these two turn back
\* at it: they leave the mark, move Left and enter AddDigitZero / AddDigitOne.
C14_MarksOnlyReadByAdd ==
  /\ [](IsValid(input) =>
          ((head < Len(tape) /\ IsMark(tape[head + 1])) => state \in {"AddZero", "AddOne"}))
  /\ [][\A c \in {"I", "O"} :
          /\ Reads("AddZero", c) => DoesLeft(c, "AddDigitZero")
          /\ Reads("AddOne", c) => DoesLeft(c, "AddDigitOne")]_vars

\* in a later pass AddOne has just turned back at a marked cell
C14_Witness ==
  /\ IsValid(input)
  /\ PrevRead("AddOne", "O")
  /\ state = "AddDigitOne"
  /\ head = prev.head - 1
  /\ tape = prev.tape
  /\ Len(consumed) >= 2

\* C15: on a well-formed initial tape the outer loop runs once per digit of
\* the first operand: GetLast never consumes more digits than the first operand
\* has, and in Halt the number of digits consumed and the number of marked
\* cells both equal the number of digits of the first operand.
C15_OncePerDigit ==
  IsValid(input) =>
    /\ Len(consumed) <= Operand1Digits(input)
    /\ state = "Halt" =>
         /\ Len(consumed) = Operand1Digits(input)
         /\ MarkCount(tape) = Operand1Digits(input)

\* the machine has halted after three passes over a first operand of three digits
C15_Witness ==
  /\ IsValid(input)
  /\ state = "Halt"
  /\ Operand1Digits(input) = 3
  /\ Len(consumed) = 3
  /\ MarkCount(tape) = 3

\* C16: on a well-formed initial tape the machine enters Halt only from GetLast,
\* by a missing rule, with the separator immediately right of the head and no
\* digit of the first operand left; it never halts from another state.
C16_HaltsOnlyInGetLast ==
  [][(IsValid(input) /\ state # "Halt" /\ state' = "Halt") =>
        /\ state = "GetLast"
        /\ ~Matched
        /\ head + 2 <= Len(tape)
        /\ tape[head + 2] = "+"
        /\ \A i \in 1..(head + 1) : ~IsPlainDigit(tape[i])
        /\ Len(consumed) = Operand1Digits(input)
        /\ tape' = tape /\ head' = head]_vars

\* GetLast has just found no digit left of the separator and halted the machine
C16_Witness ==
  /\ IsValid(input)
  /\ PrevRead("GetLast", "_")
  /\ state = "Halt"
  /\ tape[head + 2] = "+"
  /\ Len(consumed) = Operand1Digits(input)
  /\ Len(consumed) >= 2

\* t has no separator
MissingSeparator(t) == \A i \in 1..Len(t) : t[i] # "+"

\* t holds a character that is neither a blank, a binary digit nor the separator
NonBinary(t) == \E i \in 1..Len(t) : t[i] \notin {"_", "0", "1", "+"}

\* t has a separator with no digit left of it or no digit right of it
EmptyOperand(t) ==
  \E p \in 1..Len(t) :
    /\ t[p] = "+"
    /\ \/ \A i \in 1..(p - 1) : ~IsPlainDigit(t[i])
       \/ \A i \in (p + 1)..Len(t) : ~IsPlainDigit(t[i])

Malformed(t) == MissingSeparator(t) \/ NonBinary(t) \/ EmptyOperand(t)

\* C17: on every malformed initial tape (no separator, a non-binary character,
\* or an empty operand) run ends by the no-rule path: the machine reaches Halt.
C17_MalformedHalts ==
  Malformed(input) ~> (state = "Halt")

\* t starts with a blank and ends with a blank
Padded(t) == Len(t) > 0 /\ t[1] = "_" /\ t[Len(t)] = "_"

\* C18: on a well-formed initial tape with at least one leading and one
\* trailing blank the tape length never changes: no growth step fires, no
\* index shifts, and the sum stays inside the cells the operands and the
\* separator occupied (the first and the last cell stay blank).
C18_NoGrowthWhenPadded ==
  (IsValid(input) /\ Padded(input)) =>
     /\ Len(tape) = Len(input)
     /\ tape[1] = "_"
     /\ tape[Len(tape)] = "_"
     /\ \A i \in 1..Len(tape) : input[i] = "_" => tape[i] = "_"

\* 11 + 1 has been added on a padded tape: the sum 100 has taken the separator's cell
C18_Witness ==
  /\ input = <<"_", "1", "1", "+", "1", "_">>
  /\ state = "Halt"
  /\ tape = <<"_", "+", "1", "O", "O", "_">>

\* C19: on a well-formed initial tape every reachable state has a separator
\* on the tape that is left of every marked cell, and FindPlus always has a
\* separator at or right of the head with only blanks and plain digits before it.
C19_SeparatorSurvives ==
  IsValid(input) =>
    /\ \E p \in 1..Len(tape) :
         /\ tape[p] = "+"
         /\ \A q \in 1..Len(tape) : IsMark(tape[q]) => p < q
    /\ state = "FindPlus" =>
         \E p \in (head + 1)..Len(tape) :
           /\ tape[p] = "+"
           /\ \A q \in (head + 1)..(p - 1) : tape[q] \in {"_", "0", "1"}

\* a carry has just overwritten a separator with '1' and one separator is left
C19_Witness ==
  /\ IsValid(input)
  /\ PrevRead("Carry", "+")
  /\ tape[PrevCell] = "1"
  /\ Len(SelectSeq(tape, LAMBDA c : c = "+")) = 1
  /\ MarkCount(tape) >= 1

\* the marked cells of t are exactly the cells a..b, and only blanks follow b
MarkBlock(t, a, b) ==
  /\ \A i \in 1..Len(t) : IsMark(t[i]) <=> (a <= i /\ i <= b)
  /\ b < Len(t)
  /\ \A i \in (b + 1)..Len(t) : t[i] = "_"

\* the indices of the marked cells of t
MarkPos(t) == {i \in 1..Len(t) : IsMark(t[i])}

\* by how much the step shifts the indices of the old cells: 1 when it inserts at index 0
LeftShift == IF Matched /\ Rule[2] = "Left" /\ head = 0 THEN 1 ELSE 0

\* C20: on a well-formed initial tape the marked cells form one contiguous
\* block that ends right before the trailing blanks (nothing but blanks is
\* right of a marked cell), and each marking step extends the block by exactly
\* one cell on its left; no other step changes the block.
C20_MarksContiguous ==
  /\ [](IsValid(input) =>
          (MarkCount(tape) > 0 =>
             \E a \in 1..Len(tape) : \E b \in a..Len(tape) : MarkBlock(tape, a, b)))
  /\ [][(IsValid(input) /\ ~RunReturns) =>
          IF Marks
          THEN /\ head > 0
               /\ head + 1 \notin MarkPos(tape)
               /\ MarkPos(tape') = MarkPos(tape) \cup {head + 1}
               /\ IF MarkPos(tape) = {} THEN tape[head + 2] = "_"
                                        ELSE head + 2 \in MarkPos(tape)
          ELSE MarkPos(tape') = {i + LeftShift : i \in MarkPos(tape)}]_vars

\* a third pass has just put its mark left of a block of two marks
C20_Witness ==
  /\ IsValid(input)
  /\ prev.valid
  /\ prev.state \in {"AddDigitZero", "AddDigitOne"}
  /\ MarkCount(prev.tape) = 2
  /\ MarkCount(tape) = 3
  /\ IsMark(tape[PrevCell])
  /\ IsMark(tape[PrevCell + 1])
  /\ IsMark(tape[PrevCell + 2])

====
